---- MODULE Spec2Model ----
(***************************************************************************)
(* Verification model of the GPU projection-matrix pipeline of gpu_specter *)
(* (proj_matrix_gpu.py, proj_matrix_proj_matrix.py).                       *)
(*                                                                         *)
(* Each kernel is modelled as a set of lanes (CUDA threads) that take      *)
(* their steps in any order.  A lane whose boundary check fails, or whose  *)
(* stride loop is empty, executes no statement: it has no step here.       *)
(* A  +=  on an array element is two steps, the read and the write.        *)
(*                                                                         *)
(*   SpecScatter : the matrix scatter kernels (assign form, then           *)
(*                 accumulate form, on the same inputs)                    *)
(*   SpecLaunch  : the launch configurations the host computes, as the     *)
(*                 number of lanes that process each work item             *)
(*   SpecSpots   : cache_spots, the host loop over the spectra around the  *)
(*                 multispot kernel                                        *)
(*   SpecVander  : the basis kernels legvander and hermevander as their    *)
(*                 wrappers launch them                                    *)
(***************************************************************************)
EXTENDS Integers, Sequences, FiniteSets, TLC

VARIABLES
    kernel,     \* the name of the kernel that is launched or running
    nspec,      \* number of spectra of the sub-range
    nwave,      \* number of wavelengths of the sub-range
    nx, ny,     \* spot footprint size, spots.shape[2:4] = (ny, nx)
    xc, yc,     \* corners[(spectrum, wavelength)]
    spots,      \* spots[(spectrum, wavelength)][(iy, ix)]
    shape,      \* A.shape[0:2] = (ymax - ymin, xmax - xmin)
    A,          \* the matrix A[(y, x, i, j)]
    A_assign,   \* A as left by the assign kernel, kept for comparison
    lane,       \* per lane that passed the boundary check: its position
    writes,     \* history: writes[cell] = the lanes that stored to the cell, in order
    launched,   \* launch model: the kernel has been launched
    covered,    \* launch model: covered[item] = number of lanes processing it
    ghdegx,     \* p['GHDEGX']
    ghdegy,     \* p['GHDEGY']
    GH,         \* p['GH'][(i, j, spectrum, wavelength)]
    pGHx, pGHy, \* the profiles of the spectrum being processed, [(degree, wavelength, bin)]
    ghc,        \* ghc[(i, j, wavelength)], the slice of GH of that spectrum
    mspots,     \* mspots[(wavelength, iy, ix)]
    cs_ispec,   \* cache_spots: the loop variable ispec
    cs_pc,      \* cache_spots: the host's position
    mlane,      \* multispot: per lane that passed the boundary check, its position
    ghsigx, ghsigy, \* p['GHSIGX'], p['GHSIGY']: the sigmas, [(spectrum, wavelength)]
    xedges, yedges, \* calc_pgh: the normalised bin edges, [(edge, wavelength)]
    xshape,     \* x.shape: <<N>> for legvander, <<rows, columns>> for hermevander
    xv,         \* x, flattened in C order: xv[sample]
    deg,        \* the degree
    output_matrix,  \* the output buffer, flattened in C order
    stray,      \* the addresses stored to beyond the end of the output buffer
    vlog,       \* history: the <<sample, address>> of every store of the kernel
    vpos,       \* per group of lanes with equal indices: the positions its lanes are at
    version,    \* evalcoeffs: "gpu" (proj_matrix_gpu.py) or "cpu" (proj_matrix_proj_matrix.py)
    wavelengths,    \* evalcoeffs: the argument wavelengths
    psfdata,    \* evalcoeffs: the argument psfdata: the columns PARAM and COEFF, and meta
    L,          \* evalcoeffs: the Legendre basis matrix L[(wavelength, degree)]
    params,     \* evalcoeffs: the dictionary p that is built and returned
    coeff_k,    \* evalcoeffs: the counter k of the gpu version
    ec_row,     \* evalcoeffs: the position of the zip iteration
    ec_pc,      \* evalcoeffs: the host's position
    ec_call,    \* the number of the call of evalcoeffs that is running
    ec_first,   \* the dictionary the first call returned
    A_gpu,      \* host script: the matrix after the assembly "gpu 1"
    A_gpu2,     \* host script: the matrix after the assembly "gpu 2"
    nbundle,    \* main: len(bundles)
    nproc,      \* main: comm.size (1 without a communicator)
    ranks,      \* main: per rank, its position and its locals mynbundle, myfirstbundle, b, failcount
    attempts,   \* history: attempts[b] = the number of calls of ex2d for bundle b
    outcome,    \* history: per bundle, how its extraction ended
    outfiles,   \* the per-bundle frame files that have been written
    merged      \* rank 0 has run mergebundles

scatterVars == <<kernel, nx, ny, xc, yc, spots, A, A_assign, lane, writes>>
launchVars == <<launched, covered>>
spotVars ==
    <<ghdegx, ghdegy, GH, pGHx, pGHy, ghc, mspots, cs_ispec, cs_pc, mlane,
      ghsigx, ghsigy, xedges, yedges>>
vanderVars == <<xshape, xv, deg, output_matrix, stray, vlog, vpos>>
coeffVars ==
    <<version, wavelengths, psfdata, L, params, coeff_k, ec_row, ec_pc, ec_call, ec_first>>
hostVars == <<A_gpu, A_gpu2>>
mainVars == <<nbundle, nproc, ranks, attempts, outcome, outfiles, merged>>
vars ==
    <<nspec, nwave, shape, scatterVars, launchVars, spotVars, vanderVars, coeffVars, hostVars,
      mainVars>>

\* what the actions of each model leave alone
scatterFrame ==
    <<nspec, nwave, shape, launchVars, spotVars, vanderVars, coeffVars, hostVars, mainVars>>
launchFrame ==
    <<nspec, nwave, shape, scatterVars, spotVars, vanderVars, coeffVars, hostVars, mainVars>>
spotsFrame ==
    <<nspec, nwave, shape, kernel, xc, yc, A, A_assign, lane, writes, launchVars, vanderVars,
      coeffVars, hostVars, mainVars>>
vanderFrame ==
    <<nspec, nwave, shape, nx, ny, xc, yc, spots, A, A_assign, lane, writes, launchVars, spotVars,
      coeffVars, hostVars, mainVars>>
coeffsFrame ==
    <<shape, nx, ny, xc, yc, spots, A, A_assign, lane, writes, launchVars, spotVars, hostVars,
      mainVars>>
assemblyFrame == <<A_assign, writes, launchVars, spotVars, vanderVars, coeffVars, mainVars>>
mainFrame ==
    <<nspec, nwave, shape, scatterVars, launchVars, spotVars, vanderVars, coeffVars, hostVars>>

(***************************************************************************)
(* Bounds of the model.                                                    *)
(***************************************************************************)
MaxSpec == 2
MaxWave == 2
MaxPairs == 2
MaxNx == 2
MaxNy == 2
MaxCells == 2
MaxCorner == 1
MaxLaunchSpec == 2
MaxLaunchWave == 17
MaxBox == 17
MaxSpotWave == 257
MaxGhDeg == 1
MaxTerms == 2
MaxCoeff == 1
MaxSamples == 2
MaxRows == 2
MaxDeg == 2
MaxHermiteSteps == 6
MaxEvalSize == 4
MaxBundle == 3
MaxProc == 3

(***************************************************************************)
(* Host side: sub-range, bounding box, allocation, launch configuration.   *)
(***************************************************************************)
ispec == 0
iwave == 0
threads_per_block == 16
multispot_threads_per_block == 64
multispot_blocks_per_grid == 4

SetMin(S) == CHOOSE m \in S : \A e \in S : m <= e
SetMax(S) == CHOOSE m \in S : \A e \in S : e <= m

\* math.ceil(a / b) for positive integers
Ceil(a, b) == (a + b - 1) \div b

Pairs == (0 .. nspec - 1) \X (0 .. nwave - 1)
SubRange == (ispec .. ispec + nspec - 1) \X (iwave .. iwave + nwave - 1)

xmin == SetMin({xc[p] : p \in SubRange})
\* mutant: the footprint size is not added to the largest corner
xmax_no_footprint == SetMax({xc[p] : p \in SubRange})
xmax == SetMax({xc[p] : p \in SubRange}) + nx
ymin == SetMin({yc[p] : p \in SubRange})
ymax == SetMax({yc[p] : p \in SubRange}) + ny

\* A = np.zeros((ymax-ymin, xmax-xmin, nspec, nwave))
Cells == (0 .. shape[1] - 1) \X (0 .. shape[2] - 1) \X (0 .. nspec - 1) \X (0 .. nwave - 1)
\* mutant: A is allocated without being zeroed
StaleA == [c \in Cells |-> 1]
ZeroA == [c \in Cells |-> 0]

\* blocks_per_grid_x = math.ceil(A.shape[0] / threads_per_block[0]), likewise y
blocks_per_grid_x == Ceil(shape[1], threads_per_block)
blocks_per_grid_y == Ceil(shape[2], threads_per_block)

\* cuda.grid(2) of the thread (bx, tx) x (by, ty)
cuda_grid(b, t, dim) == b * dim + t

\* the threads of the 2-d launch whose cuda.grid(2) is (i, j)
ThreadsAt(i, j) ==
    {bt \in (0 .. blocks_per_grid_x - 1) \X (0 .. threads_per_block - 1) :
        cuda_grid(bt[1], bt[2], threads_per_block) = i}
    \X
    {bt \in (0 .. blocks_per_grid_y - 1) \X (0 .. threads_per_block - 1) :
        cuda_grid(bt[1], bt[2], threads_per_block) = j}

\* if (0 <= i < nspec) and (0 <= j < nwave)
BoundaryCheck(i, j) == 0 <= i /\ i < nspec /\ 0 <= j /\ j < nwave

\* the (i, j) of the lanes that enter the body of the scatter kernel
ScatterLanes == {p \in Pairs : BoundaryCheck(p[1], p[2]) /\ ThreadsAt(p[1], p[2]) # {}}

(***************************************************************************)
(* The scatter kernels.                                                    *)
(***************************************************************************)
\* mutant: the corner of wavelength iwave is used for every j
ixc_first_wave(i, j) == xc[<<ispec + i, iwave>>] - xmin

\* ixc = xc[ispec+i, iwave+j] - xmin ; iyc = yc[ispec+i, iwave+j] - ymin
ixc(i, j) == xc[<<ispec + i, iwave + j>>] - xmin
iyc(i, j) == yc[<<ispec + i, iwave + j>>] - ymin

\* temp_spot = spots[ispec+i, iwave+j][iy, ix]
temp_spot(i, j, iy, ix) == spots[<<ispec + i, iwave + j>>][<<iy, ix>>]

\* mutant: the wavelength index is dropped from the store
Element_no_wave(y, x, i, j) == <<y, x, i, 0>>

\* the element A[y, x, i, j] the kernel's store names
Element(y, x, i, j) == <<y, x, i, j>>

\* mutant: the inner index does not advance
LoopIx_stuck(k) == 0

\* the k-th iteration of the nested enumerate loops: iy outer, ix inner
LoopIy(k) == k \div nx
LoopIx(k) == k % nx
Target(l, k) ==
    Element(iyc(l[1], l[2]) + LoopIy(k), ixc(l[1], l[2]) + LoopIx(k), l[1], l[2])

StartLanes == [l \in ScatterLanes |-> [k |-> 0, phase |-> "fetch", acc |-> 0]]
Finished(l) == lane[l].k = ny * nx
KernelDone == \A l \in DOMAIN lane : Finished(l)

Store(l, c, v) ==
    /\ A' = [A EXCEPT ![c] = v]
    /\ writes' = [writes EXCEPT ![c] = Append(@, l)]

\* projection_matrix2, first half of  A[y, x, i, j] += temp_spot : read and add
Fetch(l) ==
    /\ kernel = "projection_matrix2"
    /\ ~Finished(l)
    /\ lane[l].phase = "fetch"
    /\ lane' = [lane EXCEPT ![l].phase = "store",
                            ![l].acc = A[Target(l, lane[l].k)]
                                + temp_spot(l[1], l[2], LoopIy(lane[l].k), LoopIx(lane[l].k))]
    /\ UNCHANGED <<kernel, nx, ny, xc, yc, spots, A, A_assign, writes>>
    /\ UNCHANGED scatterFrame

\* projection_matrix2, second half of  A[y, x, i, j] += temp_spot : write back
Accumulate(l) ==
    /\ kernel = "projection_matrix2"
    /\ ~Finished(l)
    /\ lane[l].phase = "store"
    /\ Store(l, Target(l, lane[l].k), lane[l].acc)
    /\ lane' = [lane EXCEPT ![l].phase = "fetch", ![l].k = @ + 1]
    /\ UNCHANGED <<kernel, nx, ny, xc, yc, spots, A_assign>>
    /\ UNCHANGED scatterFrame

\* projection_matrix (proj_matrix_proj_matrix.py):  A[y, x, i, j] = temp_spot
Assign(l) ==
    /\ kernel = "projection_matrix"
    /\ ~Finished(l)
    /\ Store(l, Target(l, lane[l].k),
             temp_spot(l[1], l[2], LoopIy(lane[l].k), LoopIx(lane[l].k)))
    /\ lane' = [lane EXCEPT ![l].k = @ + 1]
    /\ UNCHANGED <<kernel, nx, ny, xc, yc, spots, A_assign>>
    /\ UNCHANGED scatterFrame

\* The host keeps the assign kernel's matrix, allocates a zero A again and
\* launches the accumulate kernel with the same arguments.
Relaunch ==
    /\ kernel = "projection_matrix"
    /\ KernelDone
    /\ kernel' = "projection_matrix2"
    /\ A_assign' = A
    /\ A' = ZeroA
    /\ lane' = StartLanes
    /\ writes' = [c \in Cells |-> <<>>]
    /\ UNCHANGED <<nx, ny, xc, yc, spots>>
    /\ UNCHANGED scatterFrame

VanderIdle ==
    /\ xshape = <<>> /\ xv = <<>> /\ deg = 0 /\ output_matrix = <<>>
    /\ stray = {} /\ vlog = {} /\ vpos = <<>>

CoeffsIdle ==
    /\ version = "none" /\ wavelengths = <<>> /\ psfdata = <<>> /\ L = <<>> /\ params = <<>>
    /\ coeff_k = 0 /\ ec_row = 0 /\ ec_pc = "idle" /\ ec_call = 0 /\ ec_first = <<>>

HostIdle == A_gpu = <<>> /\ A_gpu2 = <<>>

MainIdle ==
    /\ nbundle = 0 /\ nproc = 0 /\ ranks = <<>> /\ attempts = <<>> /\ outcome = <<>>
    /\ outfiles = {} /\ merged = FALSE

SpotsIdle ==
    /\ ghdegx = 0 /\ ghdegy = 0 /\ GH = <<>> /\ pGHx = <<>> /\ pGHy = <<>> /\ ghc = <<>>
    /\ mspots = <<>> /\ cs_ispec = 0 /\ cs_pc = "idle" /\ mlane = <<>>
    /\ ghsigx = <<>> /\ ghsigy = <<>> /\ xedges = <<>> /\ yedges = <<>>

\* the corners the inputs are drawn from
CornerPoints == {c \in (0 .. MaxCorner) \X (0 .. MaxCorner) : c[1] + c[2] <= MaxCorner}

\* the values of the spot cache: all distinct, none zero
SpotValue(p, q) == 1 + q[2] + nx * (q[1] + ny * (p[2] + nwave * p[1]))

ScatterInit ==
    /\ kernel = "projection_matrix"
    /\ nspec \in 1 .. MaxSpec
    /\ nwave \in 1 .. MaxWave
    /\ nspec * nwave <= MaxPairs
    /\ nx \in 1 .. MaxNx
    /\ ny \in 1 .. MaxNy
    /\ nx * ny <= MaxCells
    /\ \E corners \in [SubRange -> CornerPoints] :
          /\ xc = [p \in SubRange |-> corners[p][1]]
          /\ yc = [p \in SubRange |-> corners[p][2]]
    /\ spots = [p \in SubRange |->
                   [q \in (0 .. ny - 1) \X (0 .. nx - 1) |-> SpotValue(p, q)]]
    /\ shape = <<ymax - ymin, xmax - xmin>>
    /\ A = ZeroA
    /\ A_assign = <<>>
    /\ lane = StartLanes
    /\ writes = [c \in Cells |-> <<>>]
    /\ launched = FALSE
    /\ covered = <<>>
    /\ SpotsIdle
    /\ VanderIdle
    /\ CoeffsIdle
    /\ HostIdle
    /\ MainIdle

ScatterNext ==
    \/ \E l \in DOMAIN lane : Fetch(l)
    \/ \E l \in DOMAIN lane : Accumulate(l)
    \/ \E l \in DOMAIN lane : Assign(l)
    \/ Relaunch

SpecScatter == ScatterInit /\ [][ScatterNext]_vars

ScatterDone == kernel = "projection_matrix2" /\ KernelDone

(***************************************************************************)
(* The launch configurations.                                              *)
(***************************************************************************)
\* the threads of the multispot launch whose cuda.grid(1) is w
MultispotThreadsAt(w) ==
    {bt \in (0 .. multispot_blocks_per_grid - 1) \X (0 .. multispot_threads_per_block - 1) :
        cuda_grid(bt[1], bt[2], multispot_threads_per_block) = w}

\* if (0 <= iwave < nwave)
WaveCheck(w) == 0 <= w /\ w < nwave

\* projection_matrix2[blocks_per_grid, threads_per_block](A, ...)
LaunchScatter ==
    /\ kernel = "projection_matrix2"
    /\ ~launched
    /\ launched' = TRUE
    /\ covered' = [p \in Pairs |->
                      IF BoundaryCheck(p[1], p[2])
                      THEN Cardinality(ThreadsAt(p[1], p[2])) ELSE 0]
    /\ UNCHANGED launchFrame

\* multispot[blocks_per_grid, threads_per_block](pGHx, pGHy, ghc, mspots)
LaunchMultispot ==
    /\ kernel = "multispot"
    /\ ~launched
    /\ launched' = TRUE
    /\ covered' = [w \in 0 .. nwave - 1 |->
                      IF WaveCheck(w) THEN Cardinality(MultispotThreadsAt(w)) ELSE 0]
    /\ UNCHANGED launchFrame

ScatterIdle ==
    /\ nx = 0 /\ ny = 0 /\ xc = <<>> /\ yc = <<>> /\ spots = <<>>
    /\ A = <<>> /\ A_assign = <<>> /\ lane = <<>> /\ writes = <<>>

LaunchInit ==
    /\ \/ /\ kernel = "projection_matrix2"
          /\ nspec \in 1 .. MaxLaunchSpec
          /\ nwave \in 1 .. MaxLaunchWave
          /\ shape \in (1 .. MaxBox) \X (1 .. MaxBox)
       \/ /\ kernel = "multispot"
          /\ nspec = 1
          /\ nwave \in 1 .. MaxSpotWave
          /\ shape = <<0, 0>>
    /\ ScatterIdle
    /\ SpotsIdle
    /\ VanderIdle
    /\ CoeffsIdle
    /\ HostIdle
    /\ MainIdle
    /\ launched = FALSE
    /\ covered = <<>>

LaunchNext == LaunchScatter \/ LaunchMultispot

SpecLaunch == LaunchInit /\ [][LaunchNext]_vars


(***************************************************************************)
(* Floating-point values that are divided are modelled as exact rationals  *)
(* <<numerator, denominator>> in lowest terms; a division by zero gives    *)
(* <<1, 0>> or <<-1, 0>> (an infinity) or <<0, 0>> (not a number), without  *)
(* an exception, as the array libraries do.                                *)
(***************************************************************************)
RECURSIVE Gcd(_, _)
Gcd(a, b) == IF b = 0 THEN a ELSE Gcd(b, a % b)
Abs(a) == IF a < 0 THEN 0 - a ELSE a
Rat(n, d) ==
    IF d = 0 THEN <<(IF n > 0 THEN 1 ELSE IF n < 0 THEN 0 - 1 ELSE 0), 0>>
    ELSE LET sgn == IF d < 0 THEN 0 - 1 ELSE 1
             g == Gcd(Abs(n), Abs(d))
         IN  <<(sgn * n) \div g, (sgn * d) \div g>>
RInt(n) == <<n, 1>>
RMul(a, b) == Rat(a[1] * b[1], a[2] * b[2])
RSub(a, b) == Rat(a[1] * b[2] - b[1] * a[2], a[2] * b[2])
RAdd(a, b) == Rat(a[1] * b[2] + b[1] * a[2], a[2] * b[2])
RScale(a, k) == Rat(a[1] * k, a[2])
RDiv(a, k) == Rat(a[1], a[2] * k)

(***************************************************************************)
(* cache_spots and the multispot kernel.                                   *)
(***************************************************************************)
\* p['GH'] as evalcoeffs left it; g selects one of the input tables
GHTable(g) ==
    [e \in (0 .. ghdegx) \X (0 .. ghdegy) \X (0 .. nspec - 1) \X (0 .. nwave - 1) |->
        g + e[1] + e[2] + e[3] + e[4]]

\* pGHx, pGHy = calc_pgh(ispec, wavelengths, p): the profiles of spectrum s
\* alone, pGHx[(degree, wavelength, bin)]; the values stand for the
\* pixel-integrated Gauss-Hermite terms
calc_pgh_x(s) ==
    [e \in (0 .. ghdegx) \X (0 .. nwave - 1) \X (0 .. nx - 1) |->
        1 + e[3] + 2 * e[1] + e[2] + s]
calc_pgh_y(s) ==
    [e \in (0 .. ghdegy) \X (0 .. nwave - 1) \X (0 .. ny - 1) |->
        1 + 2 * e[3] + e[1] + e[2] + 2 * s]

\* xedges = (arange(nx+1) - nx//2 - p['X'][ispec]%1) / p['GHSIGX'][ispec], of shape
\* (nx+1, nwave), and yedges likewise; the centroids are at whole pixels
calc_pgh_xedges(s) ==
    [e \in (0 .. nx) \X (0 .. nwave - 1) |-> Rat(e[1] - (nx \div 2) - 0, ghsigx[<<s, e[2]>>])]
calc_pgh_yedges(s) ==
    [e \in (0 .. ny) \X (0 .. nwave - 1) |-> Rat(e[1] - (ny \div 2) - 0, ghsigy[<<s, e[2]>>])]

\* the sigma tables the inputs are drawn from: all 1, or one entry 0 or negative
SigmaTables ==
    {[q \in Pairs |-> 1]}
        \cup {[q \in Pairs |-> IF q = bad THEN v ELSE 1] : bad \in Pairs, v \in {0 - 1, 0}}

\* the wavelengths whose lane enters the body of multispot
MultispotLanes == {w \in 0 .. nwave - 1 : WaveCheck(w) /\ MultispotThreadsAt(w) # {}}

\* the k-th iteration of the loops  for i / for j / for iy / for ix
Terms == (ghdegx + 1) * (ghdegy + 1) * ny * nx
TermI(k) == k \div ((ghdegy + 1) * ny * nx)
TermJ(k) == (k \div (ny * nx)) % (ghdegy + 1)
TermIy(k) == (k \div nx) % ny
TermIx(k) == k % nx

\* c * py[iy] * px[ix]  with px = pGHx[i,iwave], py = pGHy[j,iwave], c = ghc[i,j,iwave]
Term(w, k) ==
    ghc[<<TermI(k), TermJ(k), w>>]
        * pGHy[<<TermJ(k), w, TermIy(k)>>] * pGHx[<<TermI(k), w, TermIx(k)>>]

\* the element mspots[iwave, iy, ix]
MElement(w, k) == <<w, TermIy(k), TermIx(k)>>

MFinished(w) == mlane[w].k = Terms
MultispotDone == \A w \in DOMAIN mlane : MFinished(w)

\* mspots = cp.zeros((nwave, ny, nx))
ZeroMspots == [e \in (0 .. nwave - 1) \X (0 .. ny - 1) \X (0 .. nx - 1) |-> 0]

\* for ispec in range(nspec): calc_pgh, the slice ghc, and the launch of multispot
SpotsLaunch ==
    /\ cs_pc = "loop"
    /\ cs_ispec < nspec
    /\ pGHx' = calc_pgh_x(cs_ispec)
    /\ pGHy' = calc_pgh_y(cs_ispec)
    /\ ghc' = [e \in (0 .. ghdegx) \X (0 .. ghdegy) \X (0 .. nwave - 1) |->
                  GH[<<e[1], e[2], cs_ispec, e[3]>>]]
    /\ mlane' = [w \in MultispotLanes |-> [k |-> 0, phase |-> "fetch", acc |-> 0]]
    /\ cs_pc' = "kernel"
    /\ xedges' = calc_pgh_xedges(cs_ispec)
    /\ yedges' = calc_pgh_yedges(cs_ispec)
    /\ UNCHANGED <<nx, ny, spots, ghdegx, ghdegy, GH, mspots, cs_ispec, ghsigx, ghsigy>>
    /\ UNCHANGED spotsFrame

\* multispot, first half of  mspots[iwave, iy, ix] += c * py[iy] * px[ix]
MFetch(w) ==
    /\ cs_pc = "kernel"
    /\ ~MFinished(w)
    /\ mlane[w].phase = "fetch"
    /\ mlane' = [mlane EXCEPT ![w].phase = "store",
                              ![w].acc = mspots[MElement(w, mlane[w].k)] + Term(w, mlane[w].k)]
    /\ UNCHANGED <<nx, ny, spots, ghdegx, ghdegy, GH, pGHx, pGHy, ghc, mspots, cs_ispec, cs_pc>>
    /\ UNCHANGED <<ghsigx, ghsigy, xedges, yedges>>
    /\ UNCHANGED spotsFrame

\* multispot, second half of the +=
MStore(w) ==
    /\ cs_pc = "kernel"
    /\ ~MFinished(w)
    /\ mlane[w].phase = "store"
    /\ mspots' = [mspots EXCEPT ![MElement(w, mlane[w].k)] = mlane[w].acc]
    /\ mlane' = [mlane EXCEPT ![w].phase = "fetch", ![w].k = @ + 1]
    /\ UNCHANGED <<nx, ny, spots, ghdegx, ghdegy, GH, pGHx, pGHy, ghc, cs_ispec, cs_pc>>
    /\ UNCHANGED <<ghsigx, ghsigy, xedges, yedges>>
    /\ UNCHANGED spotsFrame

\* spots[ispec] = mspots, and the next iteration of the loop
SpotsCopy ==
    /\ cs_pc = "kernel"
    /\ MultispotDone
    /\ spots' = [p \in DOMAIN spots |->
                    IF p[1] = cs_ispec
                    THEN [q \in (0 .. ny - 1) \X (0 .. nx - 1) |-> mspots[<<p[2], q[1], q[2]>>]]
                    ELSE spots[p]]
    /\ cs_ispec' = cs_ispec + 1
    /\ cs_pc' = "loop"
    /\ UNCHANGED <<nx, ny, ghdegx, ghdegy, GH, pGHx, pGHy, ghc, mspots, mlane>>
    /\ UNCHANGED <<ghsigx, ghsigy, xedges, yedges>>
    /\ UNCHANGED spotsFrame

\* return spots.get()
SpotsReturn ==
    /\ cs_pc = "loop"
    /\ cs_ispec = nspec
    /\ cs_pc' = "return"
    /\ UNCHANGED <<nx, ny, spots, ghdegx, ghdegy, GH, pGHx, pGHy, ghc, mspots, cs_ispec, mlane>>
    /\ UNCHANGED <<ghsigx, ghsigy, xedges, yedges>>
    /\ UNCHANGED spotsFrame

SpotsInit ==
    /\ nspec \in 1 .. MaxSpec
    /\ nwave \in 1 .. MaxWave
    /\ nx \in 0 .. MaxNx
    /\ ny \in 0 .. MaxNy
    /\ ghsigx \in SigmaTables
    /\ ghsigy \in SigmaTables
    /\ (\A q \in Pairs : ghsigx[q] = 1) \/ (\A q \in Pairs : ghsigy[q] = 1)
    /\ xedges = <<>> /\ yedges = <<>>
    /\ ghdegx \in 0 .. MaxGhDeg
    /\ ghdegy \in 0 .. MaxGhDeg
    /\ Terms <= MaxTerms
    /\ \E g \in 0 .. MaxCoeff : GH = GHTable(g)
    /\ spots = [p \in Pairs |-> [q \in (0 .. ny - 1) \X (0 .. nx - 1) |-> 0]]
    /\ mspots = ZeroMspots
    /\ pGHx = <<>> /\ pGHy = <<>> /\ ghc = <<>> /\ mlane = <<>>
    /\ cs_ispec = 0
    /\ cs_pc = "loop"
    /\ kernel = "multispot"
    /\ shape = <<0, 0>>
    /\ xc = <<>> /\ yc = <<>> /\ A = <<>> /\ A_assign = <<>> /\ lane = <<>> /\ writes = <<>>
    /\ launched = FALSE
    /\ covered = <<>>
    /\ VanderIdle
    /\ CoeffsIdle
    /\ HostIdle
    /\ MainIdle

SpotsNext ==
    \/ SpotsLaunch
    \/ \E w \in DOMAIN mlane : MFetch(w)
    \/ \E w \in DOMAIN mlane : MStore(w)
    \/ SpotsCopy
    \/ SpotsReturn

SpecSpots == SpotsInit /\ [][SpotsNext]_vars

(***************************************************************************)
(* The basis kernels legvander and hermevander.                            *)
(*                                                                         *)
(* Floating-point values are modelled as exact rationals <<numerator,      *)
(* denominator>>.  The output buffer is the flat C-order memory of the     *)
(* array: element [n][k] of a row of deg+1 columns is at n*(deg+1)+k, and  *)
(* the kernels index it without a bounds check.                            *)
(*                                                                         *)
(* Lanes whose indices are equal execute the same statements on the same   *)
(* elements; they form a group.  vpos[g].at is the set of positions at     *)
(* which at least one lane of group g stands, vpos[g].threads the number   *)
(* of lanes of the group: a step takes one lane from position p to p+1,    *)
(* and either it was the last lane at p or others stay behind.             *)
(***************************************************************************)
blocksize == 256

\* the sample points and the stale contents of cp.ndarray the inputs are drawn from
XValues == {<<0 - 1, 1>>, <<1, 2>>, <<2, 1>>}
GarbageValues == {<<0, 1>>, <<7, 1>>}

IsLeg == kernel = "legvander"

\* the length the stride loop runs over: x.shape[0] in legvander, x.shape[1] in hermevander
LoopLen == IF IsLeg THEN xshape[1] ELSE xshape[2]
NSamples == IF IsLeg THEN xshape[1] ELSE xshape[1] * xshape[2]

\* numblocks = (len(x) + blocksize - 1) // blocksize, resp. of x.shape[1]
numblocks == (LoopLen + blocksize - 1) \div blocksize

\* legvander[numblocks, blocksize]: the threads whose cuda.grid(1) is i
LegThreadsAt(i) ==
    {bt \in (0 .. numblocks - 1) \X (0 .. blocksize - 1) :
        cuda_grid(bt[1], bt[2], blocksize) = i}

\* hermevander[(x.shape[0], numblocks), blocksize]: the block is (blocksize, 1, 1),
\* so of  _, j = cuda.grid(2)  j is blockIdx.y * 1 + 0; the threads <<by, tx>>
\* of one blockIdx.x whose j is the given one
HermThreadsAt(j) ==
    {bt \in (0 .. numblocks - 1) \X (0 .. blocksize - 1) : cuda_grid(bt[1], 0, 1) = j}

\* stride = cuda.gridsize(1), resp.  _, stride = cuda.gridsize(2)
vstride == IF IsLeg THEN numblocks * blocksize ELSE numblocks * 1

\* a group <<blockIdx.x, first loop index>> (legvander: <<0, cuda.grid(1)>>)
\* whose  range(first, LoopLen, stride)  is not empty
Groups ==
    IF IsLeg
    THEN {<<0, i>> : i \in {e \in 0 .. LoopLen - 1 : LegThreadsAt(e) # {}}}
    ELSE (0 .. xshape[1] - 1) \X {e \in 0 .. LoopLen - 1 : HermThreadsAt(e) # {}}
ThreadsOf(g) ==
    IF IsLeg THEN Cardinality(LegThreadsAt(g[2])) ELSE Cardinality(HermThreadsAt(g[2]))

\* the iterations of  for i in range(i, x.shape[0], stride)  and the sample of each
Iterations(g) == (LoopLen - g[2] + vstride - 1) \div vstride
SampleOf(g, it) == g[1] * LoopLen + g[2] + it * vstride

\* the statements executed per sample
\*   legvander:   [i][0] = 1 ; [i][1] = x[i] ; [i][j] = ... for j in range(2, deg+1)
\*   hermevander: [i][j][0] = 1 ; if deg > 0: [i][j][1] = x[i][j] ; [i][j][k] = ...
StepsPerSample ==
    IF IsLeg THEN (IF deg >= 2 THEN deg + 1 ELSE 2)
    ELSE (IF deg > 0 THEN deg + 1 ELSE 1)
LastPos(g) == Iterations(g) * StepsPerSample
PosSample(g, p) == SampleOf(g, p \div StepsPerSample)
PosStmt(p) == p % StepsPerSample

\* output = cp.ndarray(x.shape + (deg+1,)): address of element [n][k]
Addr(n, k) == n * (deg + 1) + k
BufferSize == NSamples * (deg + 1)

\* mutant: the weight 2j+1 in place of 2j-1
legvander_term_weight(vm1, vm2, xi, j) ==
    RDiv(RSub(RScale(RMul(vm1, xi), 2 * j + 1), RScale(vm2, j - 1)), j)

\* the right-hand sides of the recurrences
legvander_term(vm1, vm2, xi, j) ==
    RDiv(RSub(RScale(RMul(vm1, xi), 2 * j - 1), RScale(vm2, j - 1)), j)
hermevander_term(vm1, vm2, xi, k) == RSub(RMul(vm1, xi), RScale(vm2, k - 1))

\* a store to element [n][k]
Put(n, k, v) ==
    /\ IF Addr(n, k) < BufferSize
       THEN /\ output_matrix' = [output_matrix EXCEPT ![Addr(n, k)] = v]
            /\ stray' = stray
       ELSE /\ output_matrix' = output_matrix
            /\ stray' = stray \cup {Addr(n, k)}
    /\ vlog' = vlog \cup {<<n, Addr(n, k)>>}

\* one lane of group g goes from p to p + 1
Advance(g, p, stay) ==
    LET new == IF stay THEN vpos[g].at \cup {p + 1}
               ELSE (vpos[g].at \ {p}) \cup {p + 1}
    IN  /\ Cardinality(new) <= vpos[g].threads
        /\ vpos' = [vpos EXCEPT ![g].at = new]

At(g, p, stmt) ==
    /\ p \in vpos[g].at
    /\ p < LastPos(g)
    /\ IF stmt < 2 THEN PosStmt(p) = stmt ELSE PosStmt(p) >= 2

\* output_matrix[i][0] = 1
LegOne(g, p, stay) ==
    /\ kernel = "legvander"
    /\ At(g, p, 0)
    /\ Put(PosSample(g, p), 0, RInt(1))
    /\ Advance(g, p, stay)
    /\ UNCHANGED <<kernel, xshape, xv, deg>>
    /\ UNCHANGED vanderFrame

\* output_matrix[i][1] = x[i]
LegX(g, p, stay) ==
    /\ kernel = "legvander"
    /\ At(g, p, 1)
    /\ Put(PosSample(g, p), 1, xv[PosSample(g, p)])
    /\ Advance(g, p, stay)
    /\ UNCHANGED <<kernel, xshape, xv, deg>>
    /\ UNCHANGED vanderFrame

\* output_matrix[i][j] = (output_matrix[i][j-1]*x[i]*(2*j - 1) - output_matrix[i][j-2]*(j - 1)) / j
LegRec(g, p, stay) ==
    /\ kernel = "legvander"
    /\ At(g, p, 2)
    /\ LET n == PosSample(g, p)
           j == PosStmt(p)
       IN  Put(n, j, legvander_term(output_matrix[Addr(n, j - 1)],
                                    output_matrix[Addr(n, j - 2)], xv[n], j))
    /\ Advance(g, p, stay)
    /\ UNCHANGED <<kernel, xshape, xv, deg>>
    /\ UNCHANGED vanderFrame

\* output_matrix[i][j][0] = 1
HermOne(g, p, stay) ==
    /\ kernel = "hermevander"
    /\ At(g, p, 0)
    /\ Put(PosSample(g, p), 0, RInt(1))
    /\ Advance(g, p, stay)
    /\ UNCHANGED <<kernel, xshape, xv, deg>>
    /\ UNCHANGED vanderFrame

\* if deg > 0: output_matrix[i][j][1] = x[i][j]
HermX(g, p, stay) ==
    /\ kernel = "hermevander"
    /\ At(g, p, 1)
    /\ Put(PosSample(g, p), 1, xv[PosSample(g, p)])
    /\ Advance(g, p, stay)
    /\ UNCHANGED <<kernel, xshape, xv, deg>>
    /\ UNCHANGED vanderFrame

\* output_matrix[i][j][k] = output_matrix[i][j][k-1]*x[i][j] - output_matrix[i][j][k-2]*(k-1)
HermRec(g, p, stay) ==
    /\ kernel = "hermevander"
    /\ At(g, p, 2)
    /\ LET n == PosSample(g, p)
           k == PosStmt(p)
       IN  Put(n, k, hermevander_term(output_matrix[Addr(n, k - 1)],
                                      output_matrix[Addr(n, k - 2)], xv[n], k))
    /\ Advance(g, p, stay)
    /\ UNCHANGED <<kernel, xshape, xv, deg>>
    /\ UNCHANGED vanderFrame

VanderInit ==
    /\ kernel \in {"legvander", "hermevander"}
    /\ deg \in 0 .. MaxDeg
    /\ \/ /\ IsLeg
          /\ \E n \in 1 .. MaxSamples : xshape = <<n>>
          /\ xv \in [0 .. NSamples - 1 -> XValues]
       \/ /\ ~IsLeg
          /\ xshape \in (1 .. MaxRows) \X (1 .. MaxSamples)
          /\ NSamples * StepsPerSample <= MaxHermiteSteps
          \* the rows are the bin edges: each is the row before it shifted by one
          /\ \E base \in [0 .. LoopLen - 1 -> XValues] :
                xv = [n \in 0 .. NSamples - 1 |->
                         RAdd(base[n % LoopLen], RInt(n \div LoopLen))]
    /\ \E garbage \in GarbageValues :
          output_matrix = [a \in 0 .. BufferSize - 1 |-> garbage]
    /\ stray = {}
    /\ vlog = {}
    /\ vpos = [g \in Groups |-> [at |-> {0}, threads |-> ThreadsOf(g)]]
    /\ nspec = 0 /\ nwave = 0 /\ shape = <<0, 0>>
    /\ ScatterIdle
    /\ SpotsIdle
    /\ CoeffsIdle
    /\ HostIdle
    /\ MainIdle
    /\ launched = FALSE
    /\ covered = <<>>

VanderNext ==
    \/ \E g \in DOMAIN vpos : \E p \in vpos[g].at, stay \in BOOLEAN : LegOne(g, p, stay)
    \/ \E g \in DOMAIN vpos : \E p \in vpos[g].at, stay \in BOOLEAN : LegX(g, p, stay)
    \/ \E g \in DOMAIN vpos : \E p \in vpos[g].at, stay \in BOOLEAN : LegRec(g, p, stay)
    \/ \E g \in DOMAIN vpos : \E p \in vpos[g].at, stay \in BOOLEAN : HermOne(g, p, stay)
    \/ \E g \in DOMAIN vpos : \E p \in vpos[g].at, stay \in BOOLEAN : HermX(g, p, stay)
    \/ \E g \in DOMAIN vpos : \E p \in vpos[g].at, stay \in BOOLEAN : HermRec(g, p, stay)

SpecVander == VanderInit /\ [][VanderNext]_vars

\* the kernel has completed: every lane of every group is past its last statement
VanderDone ==
    /\ kernel \in {"legvander", "hermevander"}
    /\ \A g \in DOMAIN vpos : vpos[g].at = {LastPos(g)}

(***************************************************************************)
(* evalcoeffs, in the version of proj_matrix_gpu.py ("gpu": the basis is   *)
(* the output of the legvander kernel, the coefficients are indexed by the *)
(* counter k) and of proj_matrix_proj_matrix.py ("cpu": numpy's legvander, *)
(* the coefficients are those of the zip).  The function is called twice   *)
(* on the same arguments.                                                  *)
(*                                                                         *)
(* A PARAM name is the sequence of its characters.  The names of a table   *)
(* are distinct; the columns PARAM and COEFF are given separately and      *)
(* need not have the same number of rows.                                  *)
(***************************************************************************)
ParamNames ==
    { <<"X", " ", " ">>,
      <<" ", " ">>,
      <<"G", "H", "S", "I", "G", "X">>,
      <<"G", "H", "-", "0", "-", "0">>,
      <<"G", "H", "-", "0", "-", "1">>,
      <<"G", "H", "-", "1", "-", "0", " ">> }

\* str.strip()
RECURSIVE lstrip(_)
lstrip(name) == IF name # <<>> /\ Head(name) = " " THEN lstrip(Tail(name)) ELSE name
RECURSIVE rstrip(_)
rstrip(name) ==
    IF name # <<>> /\ name[Len(name)] = " "
    THEN rstrip(SubSeq(name, 1, Len(name) - 1))
    ELSE name
strip(name) == rstrip(lstrip(name))

\* str.startswith(prefix)
startswith(name, prefix) ==
    Len(name) >= Len(prefix) /\ SubSeq(name, 1, Len(prefix)) = prefix

\* str.split(sep): the pieces between the separators
RECURSIVE split(_, _)
split(name, sep) ==
    IF \E i \in 1 .. Len(name) : name[i] = sep
    THEN LET i == CHOOSE i \in 1 .. Len(name) :
                      name[i] = sep /\ \A j \in 1 .. i - 1 : name[j] # sep
         IN  <<SubSeq(name, 1, i - 1)>> \o split(SubSeq(name, i + 1, Len(name)), sep)
    ELSE <<name>>

\* int(s): IsInt(s) when it does not raise ValueError, and then its value
Digit ==
    [c \in {"0", "1", "2", "3", "4", "5", "6", "7", "8", "9"} |->
        CASE c = "0" -> 0 [] c = "1" -> 1 [] c = "2" -> 2 [] c = "3" -> 3 [] c = "4" -> 4
          [] c = "5" -> 5 [] c = "6" -> 6 [] c = "7" -> 7 [] c = "8" -> 8 [] c = "9" -> 9]
IsInt(s) == s # <<>> /\ \A i \in 1 .. Len(s) : s[i] \in DOMAIN Digit
RECURSIVE int(_)
int(s) == IF s = <<>> THEN 0 ELSE 10 * int(SubSeq(s, 1, Len(s) - 1)) + Digit[s[Len(s)]]

\* name.split('-')[1:3]
IndexPieces(name) ==
    LET pieces == split(name, "-")
    IN  SubSeq(pieces, 2, IF Len(pieces) < 3 THEN Len(pieces) ELSE 3)

\* i, j = map(int, name.split('-')[1:3]) raises ValueError
IndexValueError(name) ==
    \/ Len(IndexPieces(name)) # 2
    \/ \E n \in 1 .. Len(IndexPieces(name)) : ~IsInt(IndexPieces(name)[n])

\* i, j = map(int, name.split('-')[1:3])
GHIndex(name) == <<int(IndexPieces(name)[1]), int(IndexPieces(name)[2])>>

\* p['GH'][i,j] = ... raises IndexError: the index is beyond the allocated tensor
\* (a parsed index is never negative)
IndexError(name) ==
    \/ GHIndex(name)[1] > psfdata.meta.GHDEGX
    \/ GHIndex(name)[2] > psfdata.meta.GHDEGY

\* wx = (wavelengths - wavemin) * (2.0 / (wavemax - wavemin)) - 1.0
wx ==
    [n \in DOMAIN wavelengths |->
        RSub(RMul(RInt(wavelengths[n] - psfdata.WAVEMIN),
                  Rat(2, psfdata.WAVEMAX - psfdata.WAVEMIN)), RInt(1))]

\* np.polynomial.legendre.legvander(wx, LEGDEG): column k at the point xi
RECURSIVE np_legvander(_, _)
np_legvander(k, xi) ==
    IF k = 0 THEN RInt(1)
    ELSE IF k = 1 THEN xi
    ELSE RDiv(RSub(RScale(RMul(np_legvander(k - 1, xi), xi), 2 * k - 1),
                   RScale(np_legvander(k - 2, xi), k - 1)), k)

\* the sum over the degrees 0 .. d of M[w, :] * c[:]
RECURSIVE DotTo(_, _, _, _)
DotTo(M, c, w, d) ==
    IF d < 0 THEN RInt(0)
    ELSE RAdd(DotTo(M, c, w, d - 1), RScale(M[<<w, d>>], c[d]))

\* L.dot(coeff.T).T, of shape (nspec, nwave)
Ldot(coeff) ==
    [sw \in (0 .. nspec - 1) \X (0 .. nwave - 1) |->
        DotTo(L, coeff[sw[1]], sw[2], psfdata.meta.LEGDEG)]

\* zip(psfdata['PARAM'], psfdata['COEFF']) stops at the shorter column
ZipLen ==
    IF Len(psfdata.PARAM) < Len(psfdata.COEFF) THEN Len(psfdata.PARAM) ELSE Len(psfdata.COEFF)

\* mutant: the counter is not advanced
coeff_k_stuck(k) == k

\* k += 1
coeff_k_next(k) == k + 1

\* the coefficients the row uses: coeff_gpu[k], resp. the coeff of the zip
RowCoeff == IF version = "gpu" THEN psfdata.COEFF[coeff_k + 1] ELSE psfdata.COEFF[ec_row]

\* the name of the row, stripped
RowName == strip(psfdata.PARAM[ec_row])

\* p['GH'] = zeros((GHDEGX+1, GHDEGY+1, nspec, nwave))
GHSlots ==
    (0 .. psfdata.meta.GHDEGX) \X (0 .. psfdata.meta.GHDEGY)
        \X (0 .. nspec - 1) \X (0 .. nwave - 1)
ZeroGH == [g \in GHSlots |-> RInt(0)]

\* the row k of COEFF the tables are built of, of shape (nspec, LEGDEG + 1)
CoeffRow(k, ns, legdeg) == [s \in 0 .. ns - 1 |-> [d \in 0 .. legdeg |-> k * (d + 1) + s]]

\* the groups of lanes of the legvander launch, at their first statement
StartGroups == [g \in Groups |-> [at |-> {0}, threads |-> ThreadsOf(g)]]

\* L = legvander_wrapper(wx, LEGDEG), resp. np.polynomial.legendre.legvander(wx, LEGDEG);
\* p = dict(WAVE=wavelengths); p['GH'] = zeros(...); k = 0
EvalBasis ==
    /\ ec_pc = "basis"
    /\ version = "gpu" => VanderDone
    /\ L' = [wd \in (0 .. nwave - 1) \X (0 .. psfdata.meta.LEGDEG) |->
                IF version = "gpu"
                THEN output_matrix[Addr(wd[1], wd[2])]
                ELSE np_legvander(wd[2], wx[wd[1]])]
    /\ params' = [WAVE |-> wavelengths, GH |-> ZeroGH, fields |-> <<>>, keys |-> <<>>]
    /\ coeff_k' = 0
    /\ ec_row' = 1
    /\ ec_pc' = "loop"
    /\ UNCHANGED <<nspec, nwave, kernel, vanderVars>>
    /\ UNCHANGED <<version, wavelengths, psfdata, ec_call, ec_first>>
    /\ UNCHANGED coeffsFrame

\* if name.startswith('GH-'): i, j = map(int, ...); p['GH'][i,j] = L.dot(coeff.T).T
EvalGHRow ==
    /\ ec_pc = "loop"
    /\ ec_row <= ZipLen
    /\ startswith(RowName, <<"G", "H", "-">>)
    /\ ~IndexValueError(RowName)
    /\ ~IndexError(RowName)
    /\ params' = [params EXCEPT !.GH =
                     [g \in GHSlots |->
                         IF <<g[1], g[2]>> = GHIndex(RowName)
                         THEN Ldot(RowCoeff)[<<g[3], g[4]>>]
                         ELSE params.GH[g]]]
    /\ coeff_k' = coeff_k_next(coeff_k)
    /\ ec_row' = ec_row + 1
    /\ UNCHANGED <<nspec, nwave, kernel, vanderVars>>
    /\ UNCHANGED <<version, wavelengths, psfdata, L, ec_pc, ec_call, ec_first>>
    /\ UNCHANGED coeffsFrame

\* else: p[name] = L.dot(coeff.T).T
EvalFieldRow ==
    /\ ec_pc = "loop"
    /\ ec_row <= ZipLen
    /\ ~startswith(RowName, <<"G", "H", "-">>)
    /\ params' = [params EXCEPT !.fields = (RowName :> Ldot(RowCoeff)) @@ params.fields]
    /\ coeff_k' = coeff_k_next(coeff_k)
    /\ ec_row' = ec_row + 1
    /\ UNCHANGED <<nspec, nwave, kernel, vanderVars>>
    /\ UNCHANGED <<version, wavelengths, psfdata, L, ec_pc, ec_call, ec_first>>
    /\ UNCHANGED coeffsFrame

\* the statements of the GH branch raise: ValueError of the unpacking or of int(),
\* IndexError of the subscript; the exception leaves evalcoeffs, nothing is returned
EvalRaise ==
    /\ ec_pc = "loop"
    /\ ec_row <= ZipLen
    /\ startswith(RowName, <<"G", "H", "-">>)
    /\ IndexValueError(RowName) \/ IndexError(RowName)
    /\ params' = <<>>
    /\ ec_pc' = "raised"
    /\ UNCHANGED <<nspec, nwave, kernel, vanderVars>>
    /\ UNCHANGED <<version, wavelengths, psfdata, L, coeff_k, ec_row, ec_call, ec_first>>
    /\ UNCHANGED coeffsFrame

\* the zip is exhausted: for key in [...]: p[key] = psfdata.meta[key]; return p
EvalReturn ==
    /\ ec_pc = "loop"
    /\ ec_row > ZipLen
    /\ params' = [params EXCEPT !.keys =
                     [key \in {"HSIZEX", "HSIZEY", "GHDEGX", "GHDEGY"} |-> psfdata.meta[key]]]
    /\ ec_pc' = "returned"
    /\ UNCHANGED <<nspec, nwave, kernel, vanderVars>>
    /\ UNCHANGED <<version, wavelengths, psfdata, L, coeff_k, ec_row, ec_call, ec_first>>
    /\ UNCHANGED coeffsFrame

\* the second call, with the same arguments; the gpu version allocates a new
\* output buffer (cp.ndarray: any contents) and launches legvander again
EvalAgain ==
    /\ ec_pc = "returned"
    /\ ec_call = 1
    /\ ec_first' = params
    /\ ec_call' = 2
    /\ ec_pc' = "basis"
    /\ L' = <<>> /\ params' = <<>> /\ coeff_k' = 0 /\ ec_row' = 0
    /\ IF version = "gpu"
       THEN /\ \E garbage \in GarbageValues :
                  output_matrix' = [a \in 0 .. BufferSize - 1 |-> garbage]
            /\ stray' = {} /\ vlog' = {}
            /\ vpos' = StartGroups
       ELSE UNCHANGED <<output_matrix, stray, vlog, vpos>>
    /\ UNCHANGED <<nspec, nwave, kernel, xshape, xv, deg>>
    /\ UNCHANGED <<version, wavelengths, psfdata>>
    /\ UNCHANGED coeffsFrame

\* the tables: distinct names, a COEFF column of any length
Tables(size) ==
    {t \in [PARAM : UNION {[1 .. n -> ParamNames] : n \in 0 .. size}, rows : 0 .. size] :
        \A a, b \in DOMAIN t.PARAM : a # b => strip(t.PARAM[a]) # strip(t.PARAM[b])}

CoeffsInit ==
    /\ version \in {"gpu", "cpu"}
    /\ nspec \in 1 .. MaxEvalSize
    /\ nwave \in 1 .. MaxEvalSize
    /\ wavelengths = [n \in 0 .. nwave - 1 |-> n]
    /\ \E legdeg \in 0 .. MaxEvalSize, ghx \in 0 .. MaxGhDeg, ghy \in 0 .. MaxGhDeg :
          /\ (nspec - 1) + nwave + legdeg + ghx + ghy <= MaxEvalSize
          /\ \E t \in Tables(MaxEvalSize - ((nspec - 1) + nwave + legdeg + ghx + ghy)) :
                psfdata =
                    [PARAM |-> t.PARAM,
                     COEFF |-> [k \in 1 .. t.rows |-> CoeffRow(k, nspec, legdeg)],
                     WAVEMIN |-> 0, WAVEMAX |-> 2,
                     meta |-> [LEGDEG |-> legdeg, GHDEGX |-> ghx, GHDEGY |-> ghy,
                               HSIZEX |-> 3, HSIZEY |-> 5]]
    /\ L = <<>> /\ params = <<>> /\ coeff_k = 0 /\ ec_row = 0
    /\ ec_pc = "basis" /\ ec_call = 1 /\ ec_first = <<>>
    /\ IF version = "gpu"
       THEN /\ kernel = "legvander"
            /\ xshape = <<nwave>>
            /\ xv = wx
            /\ deg = psfdata.meta.LEGDEG
            /\ \E garbage \in GarbageValues :
                  output_matrix = [a \in 0 .. BufferSize - 1 |-> garbage]
            /\ stray = {} /\ vlog = {}
            /\ vpos = StartGroups
       ELSE /\ kernel = "numpy"
            /\ VanderIdle
    /\ shape = <<0, 0>>
    /\ ScatterIdle
    /\ SpotsIdle
    /\ HostIdle
    /\ MainIdle
    /\ launched = FALSE
    /\ covered = <<>>

CoeffsNext ==
    \/ \E g \in DOMAIN vpos : \E p \in vpos[g].at, stay \in BOOLEAN : LegOne(g, p, stay)
    \/ \E g \in DOMAIN vpos : \E p \in vpos[g].at, stay \in BOOLEAN : LegX(g, p, stay)
    \/ \E g \in DOMAIN vpos : \E p \in vpos[g].at, stay \in BOOLEAN : LegRec(g, p, stay)
    \/ EvalBasis
    \/ EvalGHRow
    \/ EvalFieldRow
    \/ EvalRaise
    \/ EvalReturn
    \/ EvalAgain

SpecCoeffs == CoeffsInit /\ [][CoeffsNext]_vars

(***************************************************************************)
(* Properties of the scatter kernels (SpecScatter).                        *)
(***************************************************************************)
\* the pixel (y, x) lies in the footprint of pair p placed at its local corner
InFootprint(y, x, p) ==
    LET cx == xc[<<ispec + p[1], iwave + p[2]>>] - xmin
        cy == yc[<<ispec + p[1], iwave + p[2]>>] - ymin
    IN  /\ cy <= y /\ y < cy + ny
        /\ cx <= x /\ x < cx + nx

\* column p of A is the spot of p at its local corner and zero elsewhere
SpotPlaced(M, p) ==
    LET cx == xc[<<ispec + p[1], iwave + p[2]>>] - xmin
        cy == yc[<<ispec + p[1], iwave + p[2]>>] - ymin
    IN  \A y \in 0 .. shape[1] - 1, x \in 0 .. shape[2] - 1 :
            M[<<y, x, p[1], p[2]>>] =
                IF InFootprint(y, x, p)
                THEN spots[<<ispec + p[1], iwave + p[2]>>][<<y - cy, x - cx>>]
                ELSE 0

\* C1: after projection_matrix2 has run on a zero A, the column of every pair
\* a lane processed (pair (0,0) among them) holds exactly that pair's spot at
\* its local corner (ixc, iyc) and zero everywhere outside that footprint.
C1_SpotAtCorner ==
    ScatterDone =>
        /\ <<0, 0>> \in DOMAIN lane
        /\ \A p \in DOMAIN lane : SpotPlaced(A, p)

C1_Witness ==
    /\ ScatterDone
    /\ nx * ny >= 2
    /\ \E p \in DOMAIN lane :
          /\ xc[<<ispec + p[1], iwave + p[2]>>] > xmin
          /\ \E y \in 0 .. shape[1] - 1, x \in 0 .. shape[2] - 1 : ~InFootprint(y, x, p)
          /\ SpotPlaced(A, p)

\* C5: no two distinct lanes ever store to the same cell of A, and the lane of
\* pair (i, j) stores only to cells A[., ., i, j]; this holds in every state of
\* every interleaving, for the assign kernel and for the accumulate kernel.
C5_DisjointWrites ==
    \A c \in DOMAIN writes :
        \A n \in 1 .. Len(writes[c]) :
            /\ writes[c][n] = <<c[3], c[4]>>
            /\ writes[c][n] = writes[c][1]

C5_Witness ==
    /\ ScatterDone
    /\ \E c \in Cells, d \in Cells :
          /\ c[1] = d[1] /\ c[2] = d[2] /\ <<c[3], c[4]>> # <<d[3], d[4]>>
          /\ writes[c] # <<>> /\ writes[d] # <<>>

\* the accumulate kernel run one lane after the other
RECURSIVE RunLane(_, _, _)
RunLane(M, l, k) ==
    IF k = ny * nx THEN M
    ELSE RunLane([M EXCEPT ![Target(l, k)] =
                      @ + temp_spot(l[1], l[2], LoopIy(k), LoopIx(k))], l, k + 1)

RECURSIVE RunLanes(_, _)
RunLanes(M, S) ==
    IF S = {} THEN M
    ELSE LET l == CHOOSE e \in S : TRUE IN RunLanes(RunLane(M, l, 0), S \ {l})

SequentialA == RunLanes(ZeroA, DOMAIN lane)

\* C6: the matrix projection_matrix2 leaves is the same for every order and
\* interleaving of the lanes: it is the matrix of the one-lane-at-a-time run.
C6_Deterministic == ScatterDone => A = SequentialA

\* two lanes are both between the read and the write of their +=
C6_Witness ==
    /\ kernel = "projection_matrix2"
    /\ \E l \in DOMAIN lane, m \in DOMAIN lane :
          l # m /\ lane[l].phase = "store" /\ lane[m].phase = "store"

\* C7 as stated: across one assembly every cell of A is written exactly once.
C7_Original == ScatterDone => \A c \in Cells : Len(writes[c]) = 1

\* C7 amended: no cell of A is stored to more than once; when the kernel has
\* finished, a cell has been stored to once if it lies in the footprint of its
\* own column and that pair was processed by a lane, and never otherwise.
C7_AtMostOnce ==
    /\ \A c \in DOMAIN writes : Len(writes[c]) <= 1
    /\ ScatterDone =>
          \A c \in Cells :
              Len(writes[c]) =
                  IF <<c[3], c[4]>> \in DOMAIN lane /\ InFootprint(c[1], c[2], <<c[3], c[4]>>)
                  THEN 1 ELSE 0

C7_Witness ==
    /\ ScatterDone
    /\ \E c \in Cells : Len(writes[c]) = 0
    /\ \E c \in Cells : Len(writes[c]) = 1

\* C8: on the same inputs and a zero A, the assign kernel and the accumulate
\* kernel leave the same matrix, whatever the interleaving of either.
C8_AssignEqualsAccumulate == ScatterDone => A = A_assign

C8_Witness ==
    /\ ScatterDone
    /\ Cardinality(DOMAIN lane) >= 2
    /\ \E c \in Cells : A_assign[c] # 0 /\ A_assign[c] = A[c]
\* C16: every store of the scatter kernels is in bounds: for every processed
\* pair (i, j), 0 <= iyc, iyc + ny <= ymax - ymin, 0 <= ixc and
\* ixc + nx <= xmax - xmin, the shape A was allocated with, so every element a
\* lane stores to is an element of A.
C16_WritesInBounds ==
    LET elements == DOMAIN A
        x0 == xmin
        y0 == ymin
    IN  /\ shape = <<ymax - y0, xmax - x0>>
        /\ \A l \in DOMAIN lane :
                LET ox == xc[<<ispec + l[1], iwave + l[2]>>] - x0
                    oy == yc[<<ispec + l[1], iwave + l[2]>>] - y0
                IN  /\ ox = ixc(l[1], l[2]) /\ oy = iyc(l[1], l[2])
                    /\ 0 <= oy /\ oy + ny <= shape[1]
                    /\ 0 <= ox /\ ox + nx <= shape[2]
                    /\ \A k \in 0 .. ny * nx - 1 :
                            Element(oy + LoopIy(k), ox + LoopIx(k), l[1], l[2]) \in elements

C16_Witness ==
    /\ ScatterDone
    /\ \E l1, l2 \in DOMAIN lane :
          /\ ixc(l1[1], l1[2]) = 0
          /\ ixc(l2[1], l2[2]) > 0
          /\ ixc(l2[1], l2[2]) + nx = shape[2]
          /\ Len(writes[Target(l2, ny * nx - 1)]) = 1


(***************************************************************************)
(* Properties of the launch configurations (SpecLaunch).                   *)
(***************************************************************************)
\* C3: under the launch configuration of the scatter kernel every pair (i, j)
\* with 0 <= i < nspec, 0 <= j < nwave is processed by exactly one lane.
C3_EveryPairOneLane ==
    (kernel = "projection_matrix2" /\ launched) => \A p \in Pairs : covered[p] = 1

\* C4: under the launch configuration of multispot every wavelength index
\* 0 .. nwave-1 is processed by exactly one lane.
C4_EveryWaveOneLane ==
    (kernel = "multispot" /\ launched) => \A w \in 0 .. nwave - 1 : covered[w] = 1


(***************************************************************************)
(* Properties of cache_spots (SpecSpots).                                  *)
(***************************************************************************)
RECURSIVE SumOver(_, _)
SumOver(S, f) ==
    IF S = {} THEN 0
    ELSE LET e == CHOOSE d \in S : TRUE IN f[e] + SumOver(S \ {e}, f)

\* sum over i, j of GH[i,j,s,w] * pGHy[j,w,y] * pGHx[i,w,x], profiles of s alone
SpotSum(s, w, y, x) ==
    SumOver((0 .. ghdegx) \X (0 .. ghdegy),
            [d \in (0 .. ghdegx) \X (0 .. ghdegy) |->
                GH[<<d[1], d[2], s, w>>]
                    * calc_pgh_y(s)[<<d[2], w, y>>] * calc_pgh_x(s)[<<d[1], w, x>>]])

\* C2: cache_spots returns, for every spectrum s and every wavelength w a lane
\* processed, spots[s,w][y,x] = sum_ij GH[i,j,s,w] * pGHy[j,w,y] * pGHx[i,w,x]:
\* each reduction starts from zero and is independent of the spectra before s.
C2_SpotIsOwnSum ==
    cs_pc = "return" =>
        \A s \in 0 .. nspec - 1 : \A w \in DOMAIN mlane :
            \A y \in 0 .. ny - 1, x \in 0 .. nx - 1 :
                spots[<<s, w>>][<<y, x>>] = SpotSum(s, w, y, x)

\* the footprint is degenerate for spectrum s: a size or a sigma is <= 0
DegenerateFootprint(s) ==
    \/ nx <= 0
    \/ ny <= 0
    \/ \E w \in 0 .. nwave - 1 : ghsigx[<<s, w>>] <= 0 \/ ghsigy[<<s, w>>] <= 0

C9_DegreeZeroOnes ==
    (VanderDone /\ deg = 0) =>
        /\ \A n \in 0 .. NSamples - 1 : output_matrix[n] = <<1, 1>>
        /\ \A w \in vlog : w[2] = w[1]

\* the recurrences, from the definitions of the polynomials
RECURSIVE LegendreP(_, _)
LegendreP(k, xi) ==
    IF k = 0 THEN <<1, 1>>
    ELSE IF k = 1 THEN xi
    ELSE RDiv(RSub(RScale(RMul(xi, LegendreP(k - 1, xi)), 2 * k - 1),
                   RScale(LegendreP(k - 2, xi), k - 1)), k)

RECURSIVE HermiteHe(_, _)
HermiteHe(k, xi) ==
    IF k = 0 THEN <<1, 1>>
    ELSE IF k = 1 THEN xi
    ELSE RSub(RMul(HermiteHe(k - 1, xi), xi), RScale(HermiteHe(k - 2, xi), k - 1))

\* C10: for every degree d >= 1 and every sample n, both kernels end with
\* V[n,0] = 1, V[n,1] = x[n] and, for 2 <= k <= d, the three-term recurrence
\* value of columns k-1 and k-2 of the same sample; no store leaves the buffer.
C10_Recurrence ==
    (VanderDone /\ deg >= 1) =>
        /\ stray = {}
        /\ \A n \in 0 .. NSamples - 1 : \A k \in 0 .. deg :
              output_matrix[Addr(n, k)] =
                  IF IsLeg THEN LegendreP(k, xv[n]) ELSE HermiteHe(k, xv[n])

C10_Witness ==
    /\ VanderDone
    /\ deg >= 2
    /\ NSamples >= 2
    /\ \E n \in 0 .. NSamples - 1 :
          output_matrix[Addr(n, 2)] # <<1, 1>> /\ output_matrix[Addr(n, 2)][2] # 1

\* the group of lanes whose stride loop evaluates sample n
GroupOf(n) ==
    CHOOSE g \in DOMAIN vpos : \E it \in 0 .. Iterations(g) - 1 : SampleOf(g, it) = n

\* the number of lanes that stored to address a: every lane of the group of a
\* sample executes each store of that sample
LanesStoring(a) ==
    LET from == {n \in 0 .. NSamples - 1 : <<n, a>> \in vlog}
    IN  SumOver(from, [n \in from |-> vpos[GroupOf(n)].threads])

\* C15: when a basis kernel has completed, as its wrapper launched it, every
\* output element V[n,k] has been stored to by exactly one lane.
C15_OneLanePerElement ==
    VanderDone =>
        \A n \in 0 .. NSamples - 1, k \in 0 .. deg : LanesStoring(Addr(n, k)) = 1

(***************************************************************************)
(* The two assemblies of the host script of proj_matrix_gpu.py: "gpu 1"    *)
(* launches the 1-d kernel projection_matrix, "gpu 2" projection_matrix2,  *)
(* both with the 2-d launch configuration, on a zero A of the same shape.  *)
(* The lanes of the 1-d kernel take their steps in any order; the launch   *)
(* of projection_matrix2 is one step of the host, with the result of its   *)
(* lanes run one after the other (the result of every interleaving, by     *)
(* C6_Deterministic).                                                      *)
(***************************************************************************)
\* i = cuda.grid(1) under the 2-d launch is the x component; if (0 <= i < nspec)
GridOneLanes ==
    {i \in 0 .. nspec - 1 :
        \E bt \in (0 .. blocks_per_grid_x - 1) \X (0 .. threads_per_block - 1) :
            cuda_grid(bt[1], bt[2], threads_per_block) = i}

\* projection_matrix, one iteration of  for j in range(nwave):  ixc, iyc and
\* local_spot are computed and the lane's local name A is bound to local_spot;
\* the array A of the host is not stored to
Gpu1Step(i) ==
    /\ kernel = "projection_matrix"
    /\ lane[i].j < nwave
    /\ lane' = [lane EXCEPT ![i] =
                   [j |-> lane[i].j + 1,
                    ixc |-> ixc(i, lane[i].j),
                    iyc |-> iyc(i, lane[i].j),
                    A |-> spots[<<ispec + i, iwave + lane[i].j>>]]]
    /\ UNCHANGED <<kernel, nspec, nwave, nx, ny, xc, yc, spots, shape, A, A_gpu, A_gpu2>>
    /\ UNCHANGED assemblyFrame

\* the kernel has completed: A_gpu = A; then A = np.zeros(...) again for "gpu 2"
Gpu1Done ==
    /\ kernel = "projection_matrix"
    /\ \A i \in DOMAIN lane : lane[i].j = nwave
    /\ A_gpu' = A
    /\ A' = ZeroA
    /\ lane' = <<>>
    /\ kernel' = "projection_matrix2"
    /\ UNCHANGED <<nspec, nwave, nx, ny, xc, yc, spots, shape, A_gpu2>>
    /\ UNCHANGED assemblyFrame

\* projection_matrix2[blocks_per_grid, threads_per_block](A, ...); A_gpu2 = A
Gpu2Run ==
    /\ kernel = "projection_matrix2"
    /\ A' = RunLanes(A, ScatterLanes)
    /\ A_gpu2' = A'
    /\ kernel' = "done"
    /\ UNCHANGED <<nspec, nwave, nx, ny, xc, yc, spots, shape, lane, A_gpu>>
    /\ UNCHANGED assemblyFrame

\* the last pair of the sub-range
LastPair == <<ispec + nspec - 1, iwave + nwave - 1>>

\* the spot caches the inputs are drawn from: all spots zero, all non-zero, or
\* the spots of the first or of the last pair only non-zero
SpotCaches ==
    {[p \in SubRange |-> [q \in (0 .. ny - 1) \X (0 .. nx - 1) |-> 0]],
     [p \in SubRange |-> [q \in (0 .. ny - 1) \X (0 .. nx - 1) |-> SpotValue(p, q)]]}
    \cup {[p \in SubRange |-> [q \in (0 .. ny - 1) \X (0 .. nx - 1) |->
               IF p = only THEN SpotValue(p, q) ELSE 0]] : only \in {<<ispec, iwave>>, LastPair}}

AssemblyInit ==
    /\ kernel = "projection_matrix"
    /\ nspec \in 1 .. MaxLaunchSpec
    /\ nwave \in 1 .. MaxLaunchWave
    /\ nx \in 1 .. MaxNx
    /\ ny \in 1 .. MaxNy
    /\ nx * ny <= MaxCells
    \* the corners: the last pair is offset from all the others
    /\ \E off \in CornerPoints :
          /\ xc = [p \in SubRange |-> IF p = LastPair THEN off[1] ELSE 0]
          /\ yc = [p \in SubRange |-> IF p = LastPair THEN off[2] ELSE 0]
    /\ spots \in SpotCaches
    /\ shape = <<ymax - ymin, xmax - xmin>>
    /\ A = ZeroA
    /\ lane = [i \in GridOneLanes |-> [j |-> 0, ixc |-> 0, iyc |-> 0, A |-> <<>>]]
    /\ A_gpu = <<>> /\ A_gpu2 = <<>>
    /\ A_assign = <<>> /\ writes = <<>>
    /\ launched = FALSE
    /\ covered = <<>>
    /\ SpotsIdle
    /\ VanderIdle
    /\ CoeffsIdle
    /\ MainIdle

AssemblyNext ==
    \/ \E i \in DOMAIN lane : Gpu1Step(i)
    \/ Gpu1Done
    \/ Gpu2Run

SpecAssembly == AssemblyInit /\ [][AssemblyNext]_vars

\* C17: the 1-d kernel leaves every cell of A as it was, so A and then A_gpu
\* are all zero under every interleaving, and when both assemblies are done
\* A_gpu differs from A_gpu2 whenever some spot value is non-zero.
C17_OneDimKernelNoOp ==
    /\ kernel = "projection_matrix" => A = ZeroA
    /\ kernel \in {"projection_matrix2", "done"} => A_gpu = ZeroA
    /\ kernel = "done" =>
          ((\E p \in SubRange : \E q \in DOMAIN spots[p] : spots[p][q] # 0)
              => A_gpu # A_gpu2)

(***************************************************************************)
(* Properties of evalcoeffs (SpecCoeffs).                                  *)
(***************************************************************************)
\* the rows of the table named GH-i-j whose index pair can be read
GHRows ==
    {k \in DOMAIN psfdata.PARAM :
        /\ startswith(strip(psfdata.PARAM[k]), <<"G", "H", "-">>)
        /\ ~IndexValueError(strip(psfdata.PARAM[k]))}

\* C11: when evalcoeffs returns, every row k that has a name and coefficients
\* has filled the slot of its name with L . COEFF[k]: GH[i,j,s,w] for a row
\* named GH-i-j, the flat field of the stripped name for any other row; the GH
\* tensor has exactly the slots (0..GHDEGX) x (0..GHDEGY) x spectra x
\* wavelengths, and a slot with no row is zero.
C11_RowsRouted ==
    ec_pc = "returned" =>
        /\ DOMAIN params.GH = GHSlots
        /\ \A k \in 1 .. ZipLen : \A s \in 0 .. nspec - 1, w \in 0 .. nwave - 1 :
              LET name == strip(psfdata.PARAM[k])
                  value == DotTo(L, psfdata.COEFF[k][s], w, psfdata.meta.LEGDEG)
              IN  IF k \in GHRows
                  THEN params.GH[<<GHIndex(name)[1], GHIndex(name)[2], s, w>>] = value
                  ELSE /\ name \in DOMAIN params.fields
                       /\ params.fields[name][<<s, w>>] = value
        /\ \A g \in GHSlots :
              (\A k \in GHRows \cap (1 .. ZipLen) :
                    GHIndex(strip(psfdata.PARAM[k])) # <<g[1], g[2]>>)
                  => params.GH[g] = RInt(0)

C11_Witness ==
    /\ ec_pc = "returned"
    /\ version = "gpu"
    /\ ZipLen = 2
    /\ 1 \notin GHRows
    /\ 2 \in GHRows
    /\ GHIndex(strip(psfdata.PARAM[2])) = <<0, 1>>
    /\ params.GH[<<0, 1, 0, 0>>] # RInt(0)
    /\ params.GH[<<0, 0, 0, 0>>] = RInt(0)

\* a table evalcoeffs is to reject: the number of named rows of PARAM differs from
\* the number of rows of COEFF, or a row named GH-i-j has its index pair outside
\* (0..GHDEGX) x (0..GHDEGY)
NamedRows == {k \in DOMAIN psfdata.PARAM : strip(psfdata.PARAM[k]) # <<>>}
MalformedCalibration ==
    \/ Cardinality(NamedRows) # Len(psfdata.COEFF)
    \/ \E k \in GHRows : IndexError(strip(psfdata.PARAM[k]))

\* C12: on a malformed table evalcoeffs fails: it never returns a parameter set.
C12_MalformedFails ==
    (ec_pc # "idle" /\ MalformedCalibration) => ec_pc # "returned"

\* C14: the second call of evalcoeffs, on the same wavelengths and the same
\* table, returns the parameter set the first call returned, for every Legendre
\* degree and every interleaving of the lanes of legvander.
C14_Idempotent ==
    (ec_pc = "returned" /\ ec_call = 2) => params = ec_first

\* ---------------------------------------------------------------------------
\* main of wrapper_specter.py: the bundles of an exposure are dealt to the ranks
\* of the communicator, every rank extracts its bundles in a loop, the failure
\* counts are summed over the ranks, and rank 0 merges the bundle files.
\* A rank is a process: the ranks step in any order and meet only in allreduce.
\* ---------------------------------------------------------------------------

Bundles == 0 .. (nbundle - 1)
Ranks == 0 .. (nproc - 1)

leftover == nbundle % nproc

mynbundle_of(rank) ==
    IF rank < leftover THEN (nbundle \div nproc) + 1 ELSE nbundle \div nproc

\* myfirstbundle with the leftover bundles forgotten.
myfirstbundle_uniform(rank) == rank * mynbundle_of(rank)

myfirstbundle_of(rank) ==
    IF rank < leftover
    THEN rank * mynbundle_of(rank)
    ELSE ((mynbundle_of(rank) + 1) * leftover) + (mynbundle_of(rank) * (rank - leftover))

\* The names the body of the try block reads after ex2d has returned.  main
\* assigns neither heliocentric_correction_factor nor fibermap (the assignments
\* are commented out) and the module has no global of either name, so reading
\* the first of them raises NameError.
heliocentric_correction_factor_defined == FALSE

\* except: failcount += 1, with the handler that forgets to count.
failcount_swallowed(failcount, raised) == failcount

failcount_after(failcount, raised) == IF raised THEN failcount + 1 ELSE failcount

\* Lines 221-234 and 267: a rank computes its share of the bundles.
MainAssign(rank) ==
    /\ ranks[rank].pc = "start"
    /\ ranks' = [ranks EXCEPT ![rank] =
                    [pc |-> "loop",
                     mynbundle |-> mynbundle_of(rank),
                     myfirstbundle |-> myfirstbundle_of(rank),
                     b |-> myfirstbundle_of(rank),
                     failcount |-> 0]]
    /\ UNCHANGED <<nbundle, nproc, attempts, outcome, outfiles, merged>>
    /\ UNCHANGED mainFrame

\* One pass of the loop over the rank's bundles: ex2d returns or raises, the
\* rest of the try block runs when it returned, and the bare except counts
\* whatever was raised.  The loop goes on to the next bundle either way.
Bundle(rank, ex2d_returns) ==
    LET r == ranks[rank]
        written == ex2d_returns /\ heliocentric_correction_factor_defined
    IN  /\ r.pc = "loop"
        /\ r.b < r.myfirstbundle + r.mynbundle
        /\ attempts' = [attempts EXCEPT ![r.b] = @ + 1]
        /\ outcome' = [outcome EXCEPT ![r.b] =
                          IF ~ex2d_returns THEN "ex2d raised"
                          ELSE IF ~written THEN "NameError"
                          ELSE "written"]
        /\ outfiles' = IF written THEN outfiles \cup {r.b} ELSE outfiles
        /\ ranks' = [ranks EXCEPT ![rank].b = r.b + 1,
                                  ![rank].failcount = failcount_after(r.failcount, ~written)]
        /\ UNCHANGED <<nbundle, nproc, merged>>
        /\ UNCHANGED mainFrame

\* comm.allreduce(failcount): every rank has left its loop, and each gets the sum.
AllReduce ==
    /\ \A rank \in Ranks :
            /\ ranks[rank].pc = "loop"
            /\ ranks[rank].b = ranks[rank].myfirstbundle + ranks[rank].mynbundle
    /\ ranks' = [rank \in Ranks |->
                    [ranks[rank] EXCEPT !.pc = "reduced",
                                        !.failcount = SumOver(Ranks, [q \in Ranks |-> ranks[q].failcount])]]
    /\ UNCHANGED <<nbundle, nproc, attempts, outcome, outfiles, merged>>
    /\ UNCHANGED mainFrame

\* Lines 365-379: raise when a bundle failed anywhere, otherwise rank 0 merges.
FailCheck(rank) ==
    /\ ranks[rank].pc = "reduced"
    /\ ranks' = [ranks EXCEPT ![rank].pc =
                    IF ranks[rank].failcount > 0 THEN "RuntimeError" ELSE "returned"]
    /\ merged' = (merged \/ (ranks[rank].failcount = 0 /\ rank = 0))
    /\ UNCHANGED <<nbundle, nproc, attempts, outcome, outfiles>>
    /\ UNCHANGED mainFrame

MainInit ==
    /\ nbundle \in 1 .. MaxBundle
    /\ nproc \in 1 .. MaxProc
    /\ ranks = [rank \in Ranks |->
                   [pc |-> "start", mynbundle |-> 0, myfirstbundle |-> 0, b |-> 0, failcount |-> 0]]
    /\ attempts = [b \in Bundles |-> 0]
    /\ outcome = [b \in Bundles |-> "none"]
    /\ outfiles = {}
    /\ merged = FALSE
    /\ nspec = 0 /\ nwave = 0 /\ shape = <<0, 0>>
    /\ kernel = "none"
    /\ ScatterIdle
    /\ launched = FALSE
    /\ covered = <<>>
    /\ SpotsIdle
    /\ VanderIdle
    /\ CoeffsIdle
    /\ HostIdle

MainNext ==
    \/ \E rank \in Ranks : MainAssign(rank)
    \/ \E rank \in Ranks : \E ex2d_returns \in BOOLEAN : Bundle(rank, ex2d_returns)
    \/ AllReduce
    \/ \E rank \in Ranks : FailCheck(rank)

SpecMain == MainInit /\ [][MainNext]_vars

\* ---------------------------------------------------------------------------
\* Properties of main
\* ---------------------------------------------------------------------------

Assigned(rank) == ranks[rank].pc # "start"
Share(rank) ==
    ranks[rank].myfirstbundle .. (ranks[rank].myfirstbundle + ranks[rank].mynbundle - 1)
Failed == {b \in Bundles : outcome[b] \in {"ex2d raised", "NameError"}}
PastAllReduce(rank) == ranks[rank].pc \in {"reduced", "RuntimeError", "returned"}

\* C18: the ranges [myfirstbundle, myfirstbundle + mynbundle) the ranks compute
\* are pairwise disjoint, together they are exactly 0 .. nbundle - 1, and the
\* counts of any two ranks differ by at most one.
C18_Partition ==
    /\ \A p \in Ranks : \A q \in Ranks :
            (Assigned(p) /\ Assigned(q) /\ p # q) =>
                /\ Share(p) \cap Share(q) = {}
                /\ ranks[p].mynbundle - ranks[q].mynbundle \in {-1, 0, 1}
    /\ \A p \in Ranks : Assigned(p) => Share(p) \subseteq Bundles
    /\ (\A p \in Ranks : Assigned(p)) => UNION {Share(p) : p \in Ranks} = Bundles

\* Every rank has its share, the bundles do not divide evenly, and a rank
\* behind the leftover ranks has a bundle of its own.
C18_Witness ==
    /\ \A p \in Ranks : Assigned(p)
    /\ leftover > 0
    /\ \E p \in Ranks : p >= leftover /\ ranks[p].mynbundle >= 1

\* C19: a bundle is attempted at most once, and exactly once by the time its
\* rank leaves the loop; a failure adds one to the rank's failcount and the
\* loop goes on; after allreduce every rank holds the number of bundles that
\* failed anywhere; a rank raises RuntimeError exactly when that number is
\* positive, and rank 0 merges only when it is 0.
C19_FailuresCounted ==
    /\ \A b \in Bundles : attempts[b] <= 1
    /\ \A p \in Ranks :
            /\ (Assigned(p) /\ ~PastAllReduce(p)) =>
                    /\ \A b \in Share(p) : attempts[b] = (IF b < ranks[p].b THEN 1 ELSE 0)
                    /\ ranks[p].failcount = Cardinality(Failed \cap Share(p))
            /\ PastAllReduce(p) =>
                    /\ \A b \in Bundles : attempts[b] = 1
                    /\ ranks[p].failcount = Cardinality(Failed)
            /\ ranks[p].pc = "RuntimeError" => Cardinality(Failed) > 0
            /\ ranks[p].pc = "returned" => Cardinality(Failed) = 0
    /\ merged => Cardinality(Failed) = 0

\* ex2d raised for a bundle, the same rank went on to a later bundle, and
\* every one of several ranks has raised RuntimeError without a merge.
C19_Witness ==
    /\ nproc >= 2
    /\ \E p \in Ranks : \E b \in Share(p) :
            outcome[b] = "ex2d raised" /\ b + 1 \in Share(p) /\ attempts[b + 1] = 1
    /\ \A p \in Ranks : ranks[p].pc = "RuntimeError"
    /\ ~merged

\* C20: when ex2d returns for every bundle, no bundle counts as failed, every
\* bundle a rank is done with has its frame file, and no rank raises.
C20_NormalCompletion ==
    (\A b \in Bundles : outcome[b] # "ex2d raised") =>
        \A p \in Ranks :
            /\ ranks[p].failcount = 0
            /\ ranks[p].pc # "RuntimeError"
            /\ Assigned(p) => \A b \in Share(p) : (b < ranks[p].b => b \in outfiles)

====
